---- MODULE Spec2Model ----
(***************************************************************************)
(* The optimization engine of working_notebook_ullas.ipynb: the finite     *)
(* difference gradient estimators, the penalty transform, the three        *)
(* line-search minimizers (steepest_descent, conjugate_gradient,           *)
(* quasi_newton with its Hessian update rules) and augmented_lagrangian.   *)
(*                                                                         *)
(* Numbers.  The notebook computes in IEEE double precision.  Here a real  *)
(* r is held as the integer r*Q (fixed point, resolution 1/Q); products    *)
(* and quotients are rescaled and rounded toward zero.  A result that is   *)
(* not a finite number (0/0, x/0, the square root of a negative number, a  *)
(* magnitude above FMAX, and anything computed from such a value) is the   *)
(* single value NaN: numpy does not raise on these, it carries the value   *)
(* on, and every ordered comparison with it is false.                      *)
(***************************************************************************)
EXTENDS Integers, Sequences, FiniteSets, TLC

\* Fixed-point resolution: the real number r is the integer r*Q.
Q == 16

\* Largest finite magnitude of the model's numbers; above it a result is
\* non-finite.
FMAX == 20000

\* The non-finite value (numpy's nan/inf), outside -FMAX..FMAX.
NaN == -999999

\* A local name that no statement has bound yet (exit_flag before the
\* first terminal condition matches).
Unbound == -1

----------------------------------------------------------------------------
(* Scalar arithmetic *)

Abs(a) == IF a < 0 THEN -a ELSE a

Sgn(a) == IF a < 0 THEN -1 ELSE IF a > 0 THEN 1 ELSE 0

\* Integer quotient rounded toward zero (b # 0).
TDiv(a, b) == Sgn(a) * Sgn(b) * (Abs(a) \div Abs(b))

\* Largest r in lo..hi with r*r <= a, given lo*lo <= a < (hi + 1)*(hi + 1).
RECURSIVE ISqrtIn(_, _, _)
ISqrtIn(a, lo, hi) ==
    IF lo = hi THEN lo
    ELSE LET mid == (lo + hi + 1) \div 2
         IN  IF mid * mid <= a THEN ISqrtIn(a, mid, hi)
             ELSE ISqrtIn(a, lo, mid - 1)

\* Largest r with r*r <= a (0 <= a < 2^30).
ISqrt(a) == ISqrtIn(a, 0, 32767)

\* A result, made non-finite when its magnitude overflows.
Fin(a) == IF a > FMAX \/ a < -FMAX THEN NaN ELSE a

FAdd(a, b) == IF a = NaN \/ b = NaN THEN NaN ELSE Fin(a + b)

FSub(a, b) == IF a = NaN \/ b = NaN THEN NaN ELSE Fin(a - b)

FNeg(a) == IF a = NaN THEN NaN ELSE -a

FMul(a, b) == IF a = NaN \/ b = NaN THEN NaN ELSE Fin(TDiv(a * b, Q))

\* a / b: division by zero does not raise, it yields a non-finite value.
FDiv(a, b) ==
    IF a = NaN \/ b = NaN \/ b = 0 THEN NaN ELSE Fin(TDiv(a * Q, b))

FAbs(a) == IF a = NaN THEN NaN ELSE Abs(a)

\* a <= b, a < b: false when either side is non-finite.
FLe(a, b) == a # NaN /\ b # NaN /\ a <= b

FLt(a, b) == a # NaN /\ b # NaN /\ a < b

\* Python's builtin max(0, a): a when a > 0 compares true, else 0.
PyMax0(a) == IF FLt(0, a) THEN a ELSE 0

\* k * a for a Python int k.
IMul(k, a) == IF a = NaN THEN NaN ELSE Fin(k * a)

----------------------------------------------------------------------------
(* Vectors (sequences of numbers) and matrices (sequences of rows) *)

\* The array with the elements of v, each computed once.
Array(v) == v \o <<>>

HasNaN(v) == \E i \in 1..Len(v) : v[i] = NaN

RECURSIVE FSum(_)
FSum(v) == IF v = <<>> THEN 0 ELSE FAdd(Head(v), FSum(Tail(v)))

VAdd(a, b) == Array([i \in 1..Len(a) |-> FAdd(a[i], b[i])])

VSub(a, b) == Array([i \in 1..Len(a) |-> FSub(a[i], b[i])])

VNeg(a) == Array([i \in 1..Len(a) |-> FNeg(a[i])])

\* c * a and a / c for a scalar c.
VScale(c, a) == Array([i \in 1..Len(a) |-> FMul(c, a[i])])

VDivS(a, c) == Array([i \in 1..Len(a) |-> FDiv(a[i], c)])

\* The exact sum of the products a[i]*b[i], at resolution 1/(Q*Q).
RECURSIVE SumProd(_, _)
SumProd(a, b) ==
    IF a = <<>> THEN 0 ELSE Head(a) * Head(b) + SumProd(Tail(a), Tail(b))

\* a.T @ b
Dot(a, b) ==
    IF HasNaN(a) \/ HasNaN(b) THEN NaN ELSE Fin(TDiv(SumProd(a, b), Q))

\* np.linalg.norm(a)
Norm(a) == IF HasNaN(a) THEN NaN ELSE Fin(ISqrt(SumProd(a, a)))

\* a @ b.T for column vectors a, b
Outer(a, b) == Array([i \in 1..Len(a) |-> Array([j \in 1..Len(b) |-> FMul(a[i], b[j])])])

\* B @ a
MatVec(B, a) == Array([i \in 1..Len(B) |-> Dot(B[i], a)])

\* a.T @ B, as a vector
VecMat(a, B) == Array([j \in 1..Len(a) |-> Dot(a, Array([i \in 1..Len(a) |-> B[i][j]]))])

MAdd(A, B) == Array([i \in 1..Len(A) |-> VAdd(A[i], B[i])])

MSub(A, B) == Array([i \in 1..Len(A) |-> VSub(A[i], B[i])])

MScale(c, A) == Array([i \in 1..Len(A) |-> VScale(c, A[i])])

MDivS(A, c) == Array([i \in 1..Len(A) |-> VDivS(A[i], c)])

\* np.eye(n)
Eye(n) == Array([i \in 1..n |-> Array([j \in 1..n |-> IF i = j THEN Q ELSE 0])])

\* np.zeros(n)
Zeros(n) == Array([i \in 1..n |-> 0])

----------------------------------------------------------------------------
(* The caller's capabilities: objective f, constraint function con *)

\* x_forw = np.array(x); x_forw[i] += d
Bump(x, i, d) == [x EXCEPT ![i] = FAdd(@, d)]

\* con(x) -> (g, h).  "ineq" is the notebook's test constraint
\* g = [x0^2 + 2*x1^2 - 2], h = []; "eq" has g = [] and the equality
\* residual h = [x0 + x1 - 1]; "both" has the two, "none" has neither.
Con(con, x) ==
    [g |-> IF con \in {"ineq", "both"}
           THEN <<FSub(FSum(Array([i \in 1..Len(x) |->
                                      IMul(i, FMul(x[i], x[i]))])), 2 * Q)>>
           ELSE <<>>,
     h |-> IF con \in {"eq", "both"} THEN <<FSub(FSum(x), Q)>> ELSE <<>>]

\* max(0, a)**2
PosSq(a) == FMul(PyMax0(a), PyMax0(a))

\* con_sum: the sum of max(0, g[i])**2 over g and of h[i]**2 over h, for
\* c = (g, h).
ConSum(c) ==
    FAdd(FSum(Array([i \in 1..Len(c.g) |-> PosSq(c.g[i])])),
         FSum(Array([i \in 1..Len(c.h) |-> FMul(c.h[i], c.h[i])])))

\* The caller's objectives: "neg_sum" is the notebook's test objective
\* -(x[0] + x[1]); "quad" is a convex quadratic, the sum of
\* w[i]*(x[i] - m[i])**2 with weights w[i] > 0 and unique minimizer m.
UserF(f, x) ==
    IF f.kind = "neg_sum" THEN FNeg(FSum(x))
    ELSE FSum(Array([i \in 1..Len(x) |->
                        IMul(f.w[i], FMul(FSub(x[i], f.m[i]),
                                          FSub(x[i], f.m[i])))]))

\* calc_lagrangian(f, con, x, lambda_, mu), with fx = f(x), c = con(x).
calc_lagrangian(fx, c, lambda_, mu) ==
    FAdd(FAdd(fx, Dot(lambda_, c.h)), Dot(mu, c.g))

\* calc_augmented_lagrangian(f, con, x, lambda_, mu, rho), with fx = f(x),
\* c = con(x).
calc_augmented_lagrangian(fx, c, lambda_, mu, rho) ==
    FAdd(calc_lagrangian(fx, c, lambda_, mu), FMul(rho, ConSum(c)))

\* f_unconstrained(x), with fx = f(x) and c = con(x) at the argument x.
f_unconstrained(fx, c, p) == FAdd(fx, FMul(p, ConSum(c)))

\* F with the penalty's constraints taken at the x given when the function
\* was built.
F_con_at_build(f, x) ==
    CASE f.kind \in {"neg_sum", "quad"} -> UserF(f, x)
      [] f.kind = "lag" ->
            calc_lagrangian(UserF(f.f, x), Con(f.con, x), f.lambda_, f.mu)
      [] f.kind = "aug" ->
            calc_augmented_lagrangian(UserF(f.f, x), Con(f.con, x),
                                      f.lambda_, f.mu, f.rho)
      [] f.kind = "pen" ->
            f_unconstrained(UserF(f.f, x), Con(f.con, f.x), f.p)

\* f(x) for an objective f: one of the caller's, or a closure the engine
\* builds over one: "lag" and "aug" bind (f, con, lambda_, mu[, rho]),
\* "pen" is the f_unconstrained of constrained_to_unconstrained.
F(f, x) ==
    CASE f.kind \in {"neg_sum", "quad"} -> UserF(f, x)
      [] f.kind = "lag" ->
            calc_lagrangian(UserF(f.f, x), Con(f.con, x), f.lambda_, f.mu)
      [] f.kind = "aug" ->
            calc_augmented_lagrangian(UserF(f.f, x), Con(f.con, x),
                                      f.lambda_, f.mu, f.rho)
      [] f.kind = "pen" ->
            f_unconstrained(UserF(f.f, x), Con(f.con, x), f.p)

\* The default penalty parameter p=100.
p_default == 100 * Q

\* constrained_to_unconstrained(f, con, x, p): the closure f_unconstrained.
\* The outer x stays in the enclosing scope; the inner parameter x shadows it.
constrained_to_unconstrained(f, con, x, p) ==
    [kind |-> "pen", f |-> f, con |-> con, x |-> x, p |-> p]

----------------------------------------------------------------------------
(* Finite differences *)

\* The default step h=1E-08: a step small against the iterates and above
\* the resolution of the numbers.
h_default == 4

forward_diff(f, x, h) ==
    Array([i \in 1..Len(x) |-> FDiv(FSub(F(f, Bump(x, i, h)), F(f, x)), h)])

central_diff(f, x, h) ==
    Array([i \in 1..Len(x) |->
            FDiv(FSub(F(f, Bump(x, i, h)), F(f, Bump(x, i, -h))), 2 * h)])

\* delta_f(f, x): the gradient estimator the caller passed, called with
\* its default step.
delta_f(df, f, x) ==
    IF df = "forward_diff" THEN forward_diff(f, x, h_default)
    ELSE central_diff(f, x, h_default)

\* The locals of forward_diff at the head of its loop: delta_f =
\* np.zeros(x.shape), i the number of passes made; evals lists the points f
\* has been called at, in call order.
forward_diff_entry(f, x, h) ==
    [fn |-> "forward_diff", f |-> f, x |-> x, h |-> h,
     delta_f |-> Zeros(Len(x)), i |-> 0, evals |-> <<>>]

\* The pass with the baseline f(x) evaluated in the first pass only.
forward_diff_body_reuse(u) ==
    [u EXCEPT !.delta_f[u.i + 1] =
                  FDiv(FSub(F(u.f, Bump(u.x, u.i + 1, u.h)), F(u.f, u.x)),
                       u.h),
              !.evals = @ \o (IF u.i = 0 THEN <<Bump(u.x, u.i + 1, u.h), u.x>>
                              ELSE <<Bump(u.x, u.i + 1, u.h)>>),
              !.i = @ + 1]

\* One pass of forward_diff's loop, for the index i (Python) = u.i:
\* x_forw = np.array(x); x_forw[i] += h;
\* delta_f[i] = (f(x_forw) - f(x)) / h, which calls f(x_forw), then f(x).
forward_diff_body(u) ==
    [u EXCEPT !.delta_f[u.i + 1] =
                  FDiv(FSub(F(u.f, Bump(u.x, u.i + 1, u.h)), F(u.f, u.x)),
                       u.h),
              !.evals = @ \o <<Bump(u.x, u.i + 1, u.h), u.x>>,
              !.i = @ + 1]

----------------------------------------------------------------------------
(* The bounded line search *)

\* How many step lengths the line search tries.
NAlpha == 3

\* The step lengths opt.fminbound tries: interior points of (0, 1), evenly
\* spaced.
Alphas == {TDiv(k * Q, NAlpha + 1) : k \in 1..NAlpha}

\* u is at least as good a value as v (a non-finite value is never better).
NoWorse(u, v) == v = NaN \/ FLe(u, v)

\* The smallest member of a set of numbers.
Least(S) == CHOOSE a \in S : \A b \in S : a <= b

\* The step lengths of least value, all of them when no value is finite.
Best(val) ==
    IF \A a \in Alphas : val[a] = NaN THEN Alphas
    ELSE {a \in Alphas : \A b \in Alphas : NoWorse(val[a], val[b])}

\* opt.fminbound(lambda alpha: f(x + alpha*s), 0, 1): the step length of
\* least objective value, the smallest such.
fminbound(f, x, s) ==
    Least(Best([a \in Alphas |-> F(f, VAdd(x, VScale(a, s)))]))

\* alpha = opt.fminbound(...); x + alpha*s
line_search(f, x, s) == VAdd(x, VScale(fminbound(f, x, s), s))

----------------------------------------------------------------------------
(* The unconstrained solvers *)

\* The default grad_tol, delta_f_tol, delta_x_tol = 1E-05, at the model's
\* resolution.
tol_default == 0

\* The fixed max_iter of the inner solve of augmented_lagrangian.
inner_max_iter == 100

\* s / np.linalg.norm(s)
Normalize(s) == VDivS(s, Norm(s))

\* The chain with the budget test moved to the end.
exit_check_budget_last(f, df, x, x_new, iter, max_iter, grad_tol, delta_x_tol, delta_f_tol) ==
    IF FLe(Norm(delta_f(df, f, x_new)), grad_tol) THEN 1
    ELSE IF FLe(Norm(VSub(x_new, x)), delta_x_tol) THEN 2
    ELSE IF FLe(FAbs(FSub(F(f, x_new), F(f, x))), delta_f_tol) THEN 3
    ELSE IF iter >= max_iter THEN 0
    ELSE Unbound

\* The chain with the step test ahead of the gradient test.
exit_check_step_first(f, df, x, x_new, iter, max_iter, grad_tol, delta_x_tol, delta_f_tol) ==
    IF iter >= max_iter THEN 0
    ELSE IF FLe(Norm(VSub(x_new, x)), delta_x_tol) THEN 2
    ELSE IF FLe(Norm(delta_f(df, f, x_new)), grad_tol) THEN 1
    ELSE IF FLe(FAbs(FSub(F(f, x_new), F(f, x))), delta_f_tol) THEN 3
    ELSE Unbound

\* The chain with the budget test off by one.
exit_check_budget_late(f, df, x, x_new, iter, max_iter, grad_tol, delta_x_tol, delta_f_tol) ==
    IF iter > max_iter THEN 0
    ELSE IF FLe(Norm(delta_f(df, f, x_new)), grad_tol) THEN 1
    ELSE IF FLe(Norm(VSub(x_new, x)), delta_x_tol) THEN 2
    ELSE IF FLe(FAbs(FSub(F(f, x_new), F(f, x))), delta_f_tol) THEN 3
    ELSE Unbound

\* The chain with the gradient taken at x, not at x_new.
exit_check_grad_at_x(f, df, x, x_new, iter, max_iter, grad_tol, delta_x_tol, delta_f_tol) ==
    IF iter >= max_iter THEN 0
    ELSE IF FLe(Norm(delta_f(df, f, x)), grad_tol) THEN 1
    ELSE IF FLe(Norm(VSub(x_new, x)), delta_x_tol) THEN 2
    ELSE IF FLe(FAbs(FSub(F(f, x_new), F(f, x))), delta_f_tol) THEN 3
    ELSE Unbound

\* The chain "if iter >= max_iter ... elif ... elif ... elif ...": the flag
\* of the first condition that holds, Unbound when none does.
exit_check(f, df, x, x_new, iter, max_iter, grad_tol, delta_x_tol, delta_f_tol) ==
    IF iter >= max_iter THEN 0
    ELSE IF FLe(Norm(delta_f(df, f, x_new)), grad_tol) THEN 1
    ELSE IF FLe(Norm(VSub(x_new, x)), delta_x_tol) THEN 2
    ELSE IF FLe(FAbs(FSub(F(f, x_new), F(f, x))), delta_f_tol) THEN 3
    ELSE Unbound

\* BFGS_update(B, delta_x, delta_delta), with ddB = delta_delta.T@B.
BFGS_terms(ddB, delta_x, delta_delta) ==
    MSub(MDivS(MScale(FAdd(Q, FDiv(Dot(ddB, delta_delta),
                                   Dot(delta_delta, delta_x))),
                      Outer(delta_x, delta_x)),
               Dot(delta_x, delta_delta)),
         MDivS(MAdd(Outer(delta_x, ddB), Outer(ddB, delta_x)),
               Dot(delta_x, delta_delta)))

BFGS_update(B, delta_x, delta_delta) ==
    BFGS_terms(VecMat(delta_delta, B), delta_x, delta_delta)

\* DFP_update(B, delta_x, delta_delta), with Bdd = B@delta_delta.
DFP_terms(Bdd, ddB, delta_x, delta_delta) ==
    MSub(MDivS(Outer(delta_x, delta_x), Dot(delta_x, delta_delta)),
         MDivS(Outer(Bdd, Bdd), Dot(ddB, delta_delta)))

DFP_update(B, delta_x, delta_delta) ==
    DFP_terms(MatVec(B, delta_delta), VecMat(delta_delta, B), delta_x,
              delta_delta)

update_rule(rule, B, delta_x, delta_delta) ==
    IF rule = "BFGS_update" THEN BFGS_update(B, delta_x, delta_delta)
    ELSE DFP_update(B, delta_x, delta_delta)

\* The locals of a solver at entry: its parameters, convergence = False,
\* iter = 0; line_searches counts the calls of opt.fminbound the solver has
\* made.
Frame(fn, caller, f, x, df, grad_tol, delta_f_tol, delta_x_tol, max_iter, full_output, rule) ==
    [fn |-> fn, caller |-> caller, f |-> f, x |-> x, delta_f |-> df,
     grad_tol |-> grad_tol, delta_f_tol |-> delta_f_tol,
     delta_x_tol |-> delta_x_tol, max_iter |-> max_iter,
     full_output |-> full_output, update_rule |-> rule,
     s |-> <<>>, x_new |-> <<>>, B |-> <<>>,
     convergence |-> FALSE, iter |-> 0, exit_flag |-> Unbound,
     line_searches |-> 0]

\* The direction s is normalized and opt.fminbound is called along it.
Searched(u, s) == [u EXCEPT !.s = s, !.line_searches = u.line_searches + 1]

\* The branches of the chain: a flag sets convergence and exit_flag, no
\* flag leaves both as they are.
Decided(u, flag) ==
    [u EXCEPT !.convergence = IF flag # Unbound THEN TRUE ELSE @,
              !.exit_flag = IF flag # Unbound THEN flag ELSE @]

\* "iter += 1" and the chain of terminal conditions, for the candidate
\* x_new reached from the iterate x.
Checked(u, x, x_new) ==
    Decided([u EXCEPT !.x_new = x_new, !.iter = u.iter + 1],
            exit_check(u.f, u.delta_f, x, x_new, u.iter + 1, u.max_iter,
                       u.grad_tol, u.delta_x_tol, u.delta_f_tol))

\* steepest_descent's pass from the candidate on: the checks, then x = x_new.
sd_advance(u, x_new) == [Checked(u, u.x, x_new) EXCEPT !.x = x_new]

\* steepest_descent's pass from the direction s on.
sd_step(u, s) == sd_advance(Searched(u, s), line_search(u.f, u.x, s))

\* One pass of steepest_descent's loop.
steepest_descent_body(u) ==
    sd_step(u, Normalize(VNeg(delta_f(u.delta_f, u.f, u.x))))

\* The first step of conjugate_gradient, from the direction s on.
cg_first(u, s) ==
    [Searched(u, s) EXCEPT !.x_new = line_search(u.f, u.x, s)]

\* conjugate_gradient before its loop: a first steepest-descent step.
conjugate_gradient_entry(u) ==
    cg_first(u, Normalize(VNeg(delta_f(u.delta_f, u.f, u.x))))

\* The direction with the restart test made on the counter after its
\* increment.
cg_direction_restart_late(u, g_new) ==
    IF (u.iter + 1) % Len(u.x) = 0
    THEN VNeg(g_new)
    ELSE VAdd(VNeg(g_new),
              VScale(FDiv(FMul(Norm(g_new), Norm(g_new)),
                          FMul(Norm(delta_f(u.delta_f, u.f, u.x)),
                               Norm(delta_f(u.delta_f, u.f, u.x)))),
                     u.s))

\* The direction of a pass of conjugate_gradient, before it is normalized,
\* with g_new = delta_f(f, x_new).
cg_direction(u, g_new) ==
    IF u.iter % Len(u.x) = 0
    THEN VNeg(g_new)
    ELSE VAdd(VNeg(g_new),
              VScale(FDiv(FMul(Norm(g_new), Norm(g_new)),
                          FMul(Norm(delta_f(u.delta_f, u.f, u.x)),
                               Norm(delta_f(u.delta_f, u.f, u.x)))),
                     u.s))

\* conjugate_gradient's pass from the direction s on: the step is taken
\* from x_new, x = x_new, then the new candidate and the checks.
cg_step(u, s) ==
    Checked([Searched(u, s) EXCEPT !.x = u.x_new], u.x_new,
            line_search(u.f, u.x_new, s))

\* One pass of conjugate_gradient's loop.
conjugate_gradient_body(u) ==
    cg_step(u, Normalize(cg_direction(u, delta_f(u.delta_f, u.f, u.x_new))))

\* quasi_newton before its loop: B = np.eye(x.shape[0]).
quasi_newton_entry(u) == [u EXCEPT !.B = Eye(Len(u.x))]

\* The pass with x advanced to x_new before B is updated.
qn_advance_post(u, x_new) ==
    [Checked(u, u.x, x_new) EXCEPT
        !.B = MAdd(u.B, update_rule(u.update_rule, u.B, VSub(x_new, x_new),
                                    VSub(delta_f(u.delta_f, u.f, x_new),
                                         delta_f(u.delta_f, u.f, x_new)))),
        !.x = x_new]

\* quasi_newton's pass from the candidate on: the checks, then the update
\* of B with the iterate x the step was taken from, then x = x_new.
qn_advance(u, x_new) ==
    [Checked(u, u.x, x_new) EXCEPT
        !.B = MAdd(u.B, update_rule(u.update_rule, u.B, VSub(x_new, u.x),
                                    VSub(delta_f(u.delta_f, u.f, x_new),
                                         delta_f(u.delta_f, u.f, u.x)))),
        !.x = x_new]

\* quasi_newton's pass from the direction s on.
qn_step(u, s) == qn_advance(Searched(u, s), line_search(u.f, u.x, s))

\* One pass of quasi_newton's loop.
quasi_newton_body(u) ==
    qn_step(u, Normalize(VNeg(MatVec(u.B, delta_f(u.delta_f, u.f, u.x)))))

\* What a solver returns.
Returned(u) ==
    IF u.full_output
    THEN [x |-> u.x_new, f_val |-> F(u.f, u.x_new),
          exit_flag |-> u.exit_flag, iter |-> u.iter]
    ELSE [x |-> u.x_new]

----------------------------------------------------------------------------
(* augmented_lagrangian *)

\* The locals of augmented_lagrangian before its loop, with c = con(x).
al_locals(f, con, x, df, rho, grad_tol, delta_f_tol, delta_x_tol, max_iter, full_output, c) ==
    [f |-> f, con |-> con, x |-> x, delta_f |-> df, rho |-> rho,
     grad_tol |-> grad_tol, delta_f_tol |-> delta_f_tol,
     delta_x_tol |-> delta_x_tol, max_iter |-> max_iter,
     full_output |-> full_output,
     g |-> c.g, h |-> c.h,
     mu0 |-> Zeros(Len(c.g)), lambda_0 |-> Zeros(Len(c.h)),
     x_new |-> <<>>, mu_new |-> <<>>, lambda_new |-> <<>>,
     delta_L_new |-> <<>>,
     convergence |-> FALSE, iter |-> 0, exit_flag |-> Unbound]

al_entry(f, con, x, df, rho, grad_tol, delta_f_tol, delta_x_tol, max_iter, full_output) ==
    al_locals(f, con, x, df, rho, grad_tol, delta_f_tol, delta_x_tol,
              max_iter, full_output, Con(con, x))

\* The objective of the inner solve: lambda x: calc_augmented_lagrangian(
\* f, con, x, lambda_0, mu0, rho).
al_objective(a) ==
    [kind |-> "aug", f |-> a.f, con |-> a.con, lambda_ |-> a.lambda_0,
     mu |-> a.mu0, rho |-> a.rho]

\* The inner call quasi_newton(<objective>, x, delta_f, delta_f_tol,
\* delta_x_tol, max_iter=100, full_output=False): the two tolerances are
\* passed by position, so they bind quasi_newton's 4th and 5th parameters,
\* grad_tol and delta_f_tol; its delta_x_tol and update_rule keep their
\* defaults.
al_inner_frame(a) ==
    quasi_newton_entry(
        Frame("quasi_newton", "augmented_lagrangian", al_objective(a), a.x,
              a.delta_f, a.delta_f_tol, a.delta_x_tol, tol_default,
              inner_max_iter, FALSE, "BFGS_update"))

\* "if mu_new[i] < 0: mu_new[i] = 0"
project(m) == IF FLt(m, 0) THEN 0 ELSE m

\* The update without the projection.
mu_update_unprojected(mu0, rho, g) ==
    Array([i \in 1..Len(g) |-> FAdd(mu0[i], FMul(rho, g[i]))])

\* mu_new = mu0 + rho*g, then every component that compares < 0 set to 0.
mu_update(mu0, rho, g) ==
    Array([i \in 1..Len(g) |-> project(FAdd(mu0[i], FMul(rho, g[i])))])

\* lambda_new = lambda_0 + rho*h
lambda_update(lambda_0, rho, h) ==
    Array([i \in 1..Len(h) |-> FAdd(lambda_0[i], FMul(rho, h[i]))])

\* The end of a pass with the terminal conditions taken on the objective of
\* the inner solve.
al_advance_surrogate(a, x_new, c, mu_new, lambda_new) ==
    [Decided([a EXCEPT !.iter = a.iter + 1],
             exit_check(al_objective(a), a.delta_f, a.x, x_new, a.iter + 1,
                        a.max_iter, a.grad_tol, a.delta_x_tol, a.delta_f_tol))
     EXCEPT !.x_new = x_new, !.g = c.g, !.h = c.h,
            !.mu_new = mu_new, !.lambda_new = lambda_new,
            !.delta_L_new =
                delta_f(a.delta_f,
                        [kind |-> "lag", f |-> a.f, con |-> a.con,
                         lambda_ |-> lambda_new, mu |-> mu_new], x_new),
            !.x = x_new, !.mu0 = mu_new, !.lambda_0 = lambda_new]

\* The end of a pass with rho doubled for the next pass.
al_advance_adaptive(a, x_new, c, mu_new, lambda_new) ==
    [Decided([a EXCEPT !.iter = a.iter + 1],
             exit_check(a.f, a.delta_f, a.x, x_new, a.iter + 1, a.max_iter,
                        a.grad_tol, a.delta_x_tol, a.delta_f_tol))
     EXCEPT !.x_new = x_new, !.g = c.g, !.h = c.h,
            !.mu_new = mu_new, !.lambda_new = lambda_new,
            !.delta_L_new =
                delta_f(a.delta_f,
                        [kind |-> "lag", f |-> a.f, con |-> a.con,
                         lambda_ |-> lambda_new, mu |-> mu_new], x_new),
            !.x = x_new, !.mu0 = mu_new, !.lambda_0 = lambda_new,
            !.rho = IMul(2, a.rho)]

\* The end of a pass of augmented_lagrangian's loop: delta_L_new, the
\* counter, the chain of terminal conditions on the objective f, x = x_new
\* and the multipliers for the next pass.
al_advance(a, x_new, c, mu_new, lambda_new) ==
    [Decided([a EXCEPT !.iter = a.iter + 1],
             exit_check(a.f, a.delta_f, a.x, x_new, a.iter + 1, a.max_iter,
                        a.grad_tol, a.delta_x_tol, a.delta_f_tol))
     EXCEPT !.x_new = x_new, !.g = c.g, !.h = c.h,
            !.mu_new = mu_new, !.lambda_new = lambda_new,
            !.delta_L_new =
                delta_f(a.delta_f,
                        [kind |-> "lag", f |-> a.f, con |-> a.con,
                         lambda_ |-> lambda_new, mu |-> mu_new], x_new),
            !.x = x_new, !.mu0 = mu_new, !.lambda_0 = lambda_new]

\* The multipliers of a pass, with c = con(x_new).
al_multipliers(a, x_new, c) ==
    al_advance(a, x_new, c, mu_update(a.mu0, a.rho, c.g),
               lambda_update(a.lambda_0, a.rho, c.h))

\* The rest of a pass of augmented_lagrangian's loop, once the inner solve
\* has returned x_new.
al_body(a, x_new) == al_multipliers(a, x_new, Con(a.con, x_new))

----------------------------------------------------------------------------
(* State *)

VARIABLES
    pc,     \* where control is: "idle", "solver" (an unconstrained solver
            \* called by the user is at the head of its loop), "al" (head of
            \* augmented_lagrangian's loop), "al_inner" (its inner solve is at
            \* the head of quasi_newton's loop), "al_update" (the inner solve
            \* has returned), "done"
    call,   \* the function and arguments of the user's call
    us,     \* the locals of the running unconstrained solver
    al,     \* the locals of augmented_lagrangian
    ret     \* what the user's call returned

vars == <<pc, call, us, al, ret>>

NoFrame == [fn |-> "none"]

NoReturn == [none |-> TRUE]

----------------------------------------------------------------------------
(* The inputs of the calls *)

\* Largest iteration budget a caller gives.
MaxIter == 3

\* The convex quadratics: minimizer at the origin, in one and two dimensions.
Quad1 == [kind |-> "quad", m |-> <<0>>, w |-> <<1>>]

Quad2 == [kind |-> "quad", m |-> <<0, 0>>, w |-> <<1, 2>>]

NegSum == [kind |-> "neg_sum"]

\* (objective, starting point) of the unconstrained calls.
Problems ==
    {<<Quad1, <<2 * Q>>>>, <<Quad1, <<2>>>>, <<Quad1, <<0>>>>,
     <<Quad2, <<2 * Q, Q>>>>, <<Quad2, <<-2 * Q, Q>>>>, <<Quad2, <<2, -3>>>>,
     <<NegSum, <<0, 0>>>>}

\* A convex quadratic whose minimizer (2, 0) violates the inequality
\* constraint.
QuadOut == [kind |-> "quad", m |-> <<2 * Q, 0>>, w |-> <<1, 1>>]

\* (objective, constraint function, starting point, gradient estimator) of
\* the constrained calls.
ConProblems ==
    {<<NegSum, "ineq", <<0, 0>>, "forward_diff">>,
     <<NegSum, "both", <<Q, 0>>, "forward_diff">>,
     <<Quad2, "eq", <<Q, 0>>, "forward_diff">>,
     <<Quad2, "ineq", <<2, -3>>, "forward_diff">>,
     <<Quad2, "ineq", <<0, 0>>, "central_diff">>,
     <<QuadOut, "ineq", <<0, Q>>, "forward_diff">>,
     <<QuadOut, "both", <<0, 0>>, "forward_diff">>}

Estimators == {"forward_diff", "central_diff"}

Rules == {"BFGS_update", "DFP_update"}

\* Tolerances a caller gives: the default and a coarse one.
Tols == {tol_default, Q}

Rhos == {Q, 2 * Q}

\* Largest dimension of the vectors forward_diff is called on.
MaxDim == 3

\* The coordinates of the points of the finite-difference and penalty calls.
Coords == {-Q, 0, Q, 2 * Q}

\* The vectors of dimension 0..MaxDim over Coords.
Vectors == UNION {[1..n -> Coords] : n \in 0..MaxDim}

\* A convex quadratic in MaxDim + 1 or fewer dimensions.
QuadN == [kind |-> "quad", m |-> <<0, Q, 0, Q>>, w |-> <<1, 2, 1, 2>>]

\* Step sizes a caller gives forward_diff: the default and a coarse one.
Steps == {h_default, Q}

\* The points of the penalty calls.
Points == [1..2 -> Coords]

Cons == {"ineq", "eq", "both", "none"}

\* Penalty parameters: none, unit, the default, and a negative one.
Penalties == {0, Q, p_default, -Q}

----------------------------------------------------------------------------
(* Actions *)

Init ==
    /\ pc = "idle"
    /\ call = NoFrame
    /\ us = NoFrame
    /\ al = NoFrame
    /\ ret = NoReturn

\* The user calls fn(f, x, delta_f, grad_tol, delta_f_tol, delta_x_tol,
\* max_iter, full_output[, update_rule]).
CallSolver(fn, u) ==
    /\ call' = u
    /\ us' = u
    /\ pc' = "solver"
    /\ UNCHANGED <<al, ret>>

call_steepest_descent ==
    /\ pc = "idle"
    /\ \E p \in Problems, df \in Estimators, gt \in Tols, ft \in Tols, xt \in Tols,
       mi \in 0..MaxIter, fo \in BOOLEAN :
        CallSolver("steepest_descent",
                   Frame("steepest_descent", "user", p[1], p[2], df, gt, ft, xt,
                         mi, fo, "none"))

call_conjugate_gradient ==
    /\ pc = "idle"
    /\ \E p \in Problems, df \in Estimators, gt \in Tols, ft \in Tols, xt \in Tols,
       mi \in 0..MaxIter, fo \in BOOLEAN :
        CallSolver("conjugate_gradient",
                   conjugate_gradient_entry(
                       Frame("conjugate_gradient", "user", p[1], p[2], df, gt,
                             ft, xt, mi, fo, "none")))

call_quasi_newton ==
    /\ pc = "idle"
    /\ \E p \in Problems, df \in Estimators, gt \in Tols, ft \in Tols, xt \in Tols,
       mi \in 0..MaxIter, fo \in BOOLEAN, rule \in Rules :
        CallSolver("quasi_newton",
                   quasi_newton_entry(
                       Frame("quasi_newton", "user", p[1], p[2], df, gt, ft, xt,
                             mi, fo, rule)))

call_augmented_lagrangian ==
    /\ pc = "idle"
    /\ \E p \in ConProblems, rho \in Rhos, gt \in Tols, ft \in Tols, xt \in Tols,
       mi \in 0..MaxIter, fo \in BOOLEAN :
        /\ al' = al_entry(p[1], p[2], p[3], p[4], rho, gt, ft, xt, mi, fo)
        /\ call' = [fn |-> "augmented_lagrangian", f |-> p[1], con |-> p[2],
                    x |-> p[3], delta_f |-> p[4], rho |-> rho,
                    grad_tol |-> gt, delta_f_tol |-> ft, delta_x_tol |-> xt,
                    max_iter |-> mi, full_output |-> fo]
        /\ pc' = "al"
        /\ UNCHANGED <<us, ret>>

\* One pass of the loop of the running unconstrained solver.
Pass(fn, body) ==
    /\ pc \in {"solver", "al_inner"}
    /\ us.fn = fn
    /\ ~us.convergence
    /\ us' = body
    /\ UNCHANGED <<pc, call, al, ret>>

steepest_descent_pass == Pass("steepest_descent", steepest_descent_body(us))

conjugate_gradient_pass ==
    Pass("conjugate_gradient", conjugate_gradient_body(us))

quasi_newton_pass == Pass("quasi_newton", quasi_newton_body(us))

\* The loop of the user's solver has ended: it returns.
solver_return ==
    /\ pc = "solver"
    /\ us.convergence
    /\ ret' = Returned(us)
    /\ pc' = "done"
    /\ UNCHANGED <<call, us, al>>

\* augmented_lagrangian starts the inner solve of a pass of its loop.
al_inner_call ==
    /\ pc = "al"
    /\ ~al.convergence
    /\ us' = al_inner_frame(al)
    /\ pc' = "al_inner"
    /\ UNCHANGED <<call, al, ret>>

\* The inner solve returns (full_output=False: x_new alone).
al_inner_return ==
    /\ pc = "al_inner"
    /\ us.convergence
    /\ al' = [al EXCEPT !.x_new = Returned(us).x]
    /\ pc' = "al_update"
    /\ UNCHANGED <<call, us, ret>>

\* The rest of the pass: multipliers, terminal conditions, x = x_new.
al_update ==
    /\ pc = "al_update"
    /\ al' = al_body(al, al.x_new)
    /\ pc' = "al"
    /\ UNCHANGED <<call, us, ret>>

al_return ==
    /\ pc = "al"
    /\ al.convergence
    /\ ret' = IF al.full_output
              THEN [x |-> al.x_new, f_val |-> F(al.f, al.x_new),
                    exit_flag |-> al.exit_flag, iter |-> al.iter]
              ELSE [x |-> al.x_new]
    /\ pc' = "done"
    /\ UNCHANGED <<call, us, al>>

\* The user is done with the result; the locals of the call are gone.
discard ==
    /\ pc = "done"
    /\ pc' = "idle"
    /\ call' = NoFrame
    /\ us' = NoFrame
    /\ al' = NoFrame
    /\ ret' = NoReturn

\* The user calls forward_diff(f, x, h).
call_forward_diff ==
    /\ pc = "idle"
    /\ \E f \in {NegSum, QuadN}, x \in Vectors, h \in Steps :
        /\ call' = [fn |-> "forward_diff", f |-> f, x |-> Array(x), h |-> h]
        /\ us' = forward_diff_entry(f, Array(x), h)
        /\ pc' = "forward_diff"
        /\ UNCHANGED <<al, ret>>

\* for i in range(x.shape[0]): one pass.
forward_diff_pass ==
    /\ pc = "forward_diff"
    /\ us.i < Len(us.x)
    /\ us' = forward_diff_body(us)
    /\ UNCHANGED <<pc, call, al, ret>>

\* The loop is exhausted: return delta_f.
forward_diff_return ==
    /\ pc = "forward_diff"
    /\ us.i >= Len(us.x)
    /\ ret' = [delta_f |-> us.delta_f]
    /\ pc' = "done"
    /\ UNCHANGED <<call, us, al>>

\* The user calls constrained_to_unconstrained(f, con, x, p) and gets the
\* function f_unconstrained.
call_constrained_to_unconstrained ==
    /\ pc = "idle"
    /\ \E f \in {NegSum, Quad2, QuadOut}, con \in Cons, x \in Points,
          p \in Penalties :
        /\ call' = [fn |-> "constrained_to_unconstrained", f |-> f,
                    con |-> con, x |-> Array(x), p |-> p]
        /\ ret' = [f_uncon |-> constrained_to_unconstrained(f, con, Array(x), p)]
        /\ pc' = "f_uncon"
        /\ UNCHANGED <<us, al>>

\* The user calls the returned function at a point x.
call_f_unconstrained ==
    /\ pc = "f_uncon"
    /\ \E x \in Points :
        us' = [fn |-> "f_unconstrained", x |-> Array(x),
               value |-> F(ret.f_uncon, Array(x))]
    /\ pc' = "done"
    /\ UNCHANGED <<call, al, ret>>

Next ==
    \/ call_steepest_descent
    \/ call_conjugate_gradient
    \/ call_quasi_newton
    \/ call_augmented_lagrangian
    \/ steepest_descent_pass
    \/ conjugate_gradient_pass
    \/ quasi_newton_pass
    \/ solver_return
    \/ al_inner_call
    \/ al_inner_return
    \/ al_update
    \/ al_return
    \/ discard

Spec == Init /\ [][Next]_vars

\* An iteration of the loop of a started call.
Iterate ==
    \/ steepest_descent_pass
    \/ conjugate_gradient_pass
    \/ quasi_newton_pass
    \/ al_update

\* ENABLED <<Iterate>>_vars, written out from the guards of these actions:
\* each of them, its guard holding, has a next state and increments a
\* counter.
IterateEnabled ==
    \/ /\ pc \in {"solver", "al_inner"}
       /\ us.fn \in {"steepest_descent", "conjugate_gradient", "quasi_newton"}
       /\ ~us.convergence
    \/ pc = "al_update"

\* A call that has started keeps executing: Python runs it to its return.
\* Every action of a started call is weakly fair; for the iterations,
\* WF_vars(Iterate) is written by its definition,
\* []<>(~ENABLED <<Iterate>>_vars) \/ []<><<Iterate>>_vars.  Whether the
\* user makes another call is left open.
LiveSpec ==
    /\ Spec
    /\ WF_vars(solver_return)
    /\ WF_vars(al_inner_call)
    /\ WF_vars(al_inner_return)
    /\ WF_vars(al_return)
    /\ ([]<>(~IterateEnabled) \/ []<><<Iterate>>_vars)

\* The calls of forward_diff alone.
NextFD ==
    \/ call_forward_diff
    \/ forward_diff_pass
    \/ forward_diff_return
    \/ discard

SpecFD == Init /\ [][NextFD]_vars

\* The calls of constrained_to_unconstrained and of the function it returns.
NextPen ==
    \/ call_constrained_to_unconstrained
    \/ call_f_unconstrained
    \/ discard

SpecPen == Init /\ [][NextPen]_vars

----------------------------------------------------------------------------
(* Properties *)

Solvers == {"steepest_descent", "conjugate_gradient", "quasi_newton"}

\* The terminal conditions, on the values they are stated over.
GradTolMet(df, f, x_new, grad_tol) == FLe(Norm(delta_f(df, f, x_new)), grad_tol)

StepTolMet(x, x_new, delta_x_tol) == FLe(Norm(VSub(x_new, x)), delta_x_tol)

ObjTolMet(f, x, x_new, delta_f_tol) ==
    FLe(FAbs(FSub(F(f, x_new), F(f, x))), delta_f_tol)

\* This step is one iteration of the loop of an unconstrained solver: the
\* candidate x_new is computed and the counter incremented.
SolverIterates ==
    /\ us.fn \in Solvers
    /\ us'.fn = us.fn
    /\ us'.iter = us.iter + 1

\* The iterate the step of this iteration is taken from: conjugate_gradient
\* steps from its last candidate, the other two from x.
PrevX == IF us.fn = "conjugate_gradient" THEN us.x_new ELSE us.x

\* This step is the end of one iteration of augmented_lagrangian's loop.
ALIterates ==
    /\ pc = "al_update"
    /\ pc' = "al"

\* After an iteration that went from the locals u to the locals v, with
\* the step taken from x: the first condition that holds, in the fixed
\* order, has set the flag and stopped the loop; none holding, no flag is
\* set and the loop goes on.
FirstMatch(u, x, v) ==
    /\ v.iter = u.iter + 1
    /\ IF v.iter >= u.max_iter
       THEN v.convergence /\ v.exit_flag = 0
       ELSE IF GradTolMet(u.delta_f, u.f, v.x_new, u.grad_tol)
       THEN v.convergence /\ v.exit_flag = 1
       ELSE IF StepTolMet(x, v.x_new, u.delta_x_tol)
       THEN v.convergence /\ v.exit_flag = 2
       ELSE IF ObjTolMet(u.f, x, v.x_new, u.delta_f_tol)
       THEN v.convergence /\ v.exit_flag = 3
       ELSE ~v.convergence /\ v.exit_flag = Unbound

\* C1: in steepest_descent, conjugate_gradient, quasi_newton and the outer
\* loop of augmented_lagrangian, every iteration, once it has its candidate
\* x_new and has incremented the counter, decides the exit flag by the
\* first matching condition in the order budget (0), gradient norm (1),
\* step norm (2), objective change (3); that condition alone sets the flag
\* and stops the loop (a stopped loop makes no further iteration), and when
\* none matches no flag is set and the next iteration starts from x_new.
C1_ExitFlagPriority ==
    [][/\ SolverIterates =>
            /\ ~us.convergence
            /\ FirstMatch(us, PrevX, us')
            /\ IF us.fn = "conjugate_gradient" THEN us'.x = us.x_new
               ELSE us'.x = us'.x_new
       /\ ALIterates =>
            /\ ~al.convergence
            /\ FirstMatch(al, al.x, al')
            /\ al'.x = al'.x_new]_vars

\* A stopped conjugate_gradient whose last iteration was within budget and
\* met all three tolerances: the flag is the gradient's.
C1_Witness ==
    /\ pc = "solver"
    /\ us.fn = "conjugate_gradient"
    /\ us.convergence
    /\ us.iter < us.max_iter
    /\ GradTolMet(us.delta_f, us.f, us.x_new, us.grad_tol)
    /\ StepTolMet(us.x, us.x_new, us.delta_x_tol)
    /\ ObjTolMet(us.f, us.x, us.x_new, us.delta_f_tol)
    /\ us.exit_flag = 1

\* This step is the last iteration of a user's call with full_output=True,
\* and both the gradient-norm and the step-norm tolerance are met in it.
StopsWithBothMet ==
    /\ SolverIterates
    /\ pc = "solver"
    /\ us.full_output
    /\ us'.convergence
    /\ GradTolMet(us.delta_f, us.f, us'.x_new, us.grad_tol)
    /\ StepTolMet(PrevX, us'.x_new, us.delta_x_tol)

\* This step is the return of a user's call with full_output=True.
ReturnsFullOutput ==
    /\ pc = "solver"
    /\ pc' = "done"
    /\ us.full_output

\* C2 (as amended): for steepest_descent, conjugate_gradient and
\* quasi_newton with full_output=True, when the call stops at an iteration
\* in which the gradient-norm and the step-norm tolerance are both met, the
\* returned flag is 1 if the iteration count is below max_iter and 0 if it
\* has reached max_iter; it is never 2.
C2_GradientWinsWithinBudget ==
    [][/\ StopsWithBothMet =>
            us'.exit_flag = IF us'.iter >= us.max_iter THEN 0 ELSE 1
       /\ ReturnsFullOutput => ret'.exit_flag = us.exit_flag]_vars

\* C2 as stated: both tolerances met at the stopping iteration give flag 1
\* (here for the calls with max_iter >= 1 alone).
C2_AsClaimed ==
    [][/\ (StopsWithBothMet /\ us.max_iter >= 1) => us'.exit_flag = 1
       /\ ReturnsFullOutput => ret'.exit_flag = us.exit_flag]_vars

\* A conjugate_gradient call with full_output=True has returned flag 1 from
\* an iteration within budget in which both tolerances were met.
C2_Witness ==
    /\ pc = "done"
    /\ call.fn = "conjugate_gradient"
    /\ call.full_output
    /\ ret.iter < call.max_iter
    /\ GradTolMet(us.delta_f, us.f, us.x_new, us.grad_tol)
    /\ StepTolMet(us.x, us.x_new, us.delta_x_tol)
    /\ ret.exit_flag = 1

\* The locals of the loop of the user's call.
Own == IF call.fn = "augmented_lagrangian" THEN al ELSE us

\* A user's call of a solver with max_iter >= 1 is running.
Running ==
    /\ pc \in {"solver", "al", "al_inner", "al_update"}
    /\ call.max_iter >= 1

\* C3: every call of steepest_descent, conjugate_gradient, quasi_newton and
\* augmented_lagrangian with max_iter >= 1 makes at most max_iter
\* iterations of its own loop and returns; at the return exactly one flag
\* of {0,1,2,3} is assigned, the iteration count is in 1..max_iter, the
\* flag is 0 exactly when the count equals max_iter, and the last candidate
\* x_new is what is returned (with flag 0 too).
C3_TerminatesWithinBudget ==
    /\ [](Running => Own.iter <= call.max_iter)
    /\ []((pc = "done" /\ call.max_iter >= 1) =>
            /\ Own.convergence
            /\ Own.exit_flag \in 0..3
            /\ Own.iter \in 1..call.max_iter
            /\ (Own.exit_flag = 0 <=> Own.iter = call.max_iter)
            /\ ret.x = Own.x_new
            /\ call.full_output =>
                    /\ ret.exit_flag = Own.exit_flag
                    /\ ret.iter = Own.iter)
    /\ (Running ~> pc = "done")

\* An augmented_lagrangian call has used up a budget of two or more
\* iterations and returned its last candidate with flag 0.
C3_Witness ==
    /\ pc = "done"
    /\ call.fn = "augmented_lagrangian"
    /\ call.max_iter >= 2
    /\ call.full_output
    /\ ret.exit_flag = 0
    /\ ret.iter = call.max_iter
    /\ ret.x = al.x_new

\* A user's call of an unconstrained solver on a convex quadratic, with
\* max_iter >= 1, has returned.
QuadraticDone ==
    /\ pc = "done"
    /\ call.fn \in Solvers
    /\ call.f.kind = "quad"
    /\ call.max_iter >= 1

\* C4 (as amended): on a convex quadratic with a unique minimizer, each of
\* steepest_descent, conjugate_gradient and quasi_newton ends within
\* max_iter iterations with a flag in {0,1,2,3}, flag 0 only with the
\* budget used up, and the gradient norm at the returned point is <=
\* grad_tol when the flag is 1.
C4_QuadraticOutcome ==
    QuadraticDone =>
        /\ us.exit_flag \in 0..3
        /\ us.iter <= call.max_iter
        /\ us.exit_flag = 0 => us.iter = call.max_iter
        /\ us.exit_flag = 1 =>
                GradTolMet(call.delta_f, call.f, ret.x, call.grad_tol)

\* C4 as stated: the flag is in {1,2,3} and the gradient norm at the
\* returned point is <= grad_tol.
C4_AsClaimed ==
    QuadraticDone =>
        /\ us.exit_flag \in 1..3
        /\ us.iter <= call.max_iter
        /\ GradTolMet(call.delta_f, call.f, ret.x, call.grad_tol)

\* A quasi_newton call on a quadratic has returned flag 1 from its second
\* or a later iteration, away from its starting point.
C4_Witness ==
    /\ QuadraticDone
    /\ call.fn = "quasi_newton"
    /\ us.exit_flag = 1
    /\ us.iter >= 2
    /\ ret.x # call.x
    /\ GradTolMet(call.delta_f, call.f, ret.x, call.grad_tol)

\* The states of an augmented_lagrangian call.
InAL == call.fn = "augmented_lagrangian"

NonNegative(v) == \A i \in 1..Len(v) : v[i] # NaN /\ v[i] >= 0

\* C5 as stated: in every state of an augmented_lagrangian call every
\* component of mu is >= 0, the mu the inner solve's objective reads
\* included; mu and lambda are all-zero vectors sized to the g and h of
\* con at the initial x when the call starts.
C5_AsClaimed ==
    InAL =>
        /\ NonNegative(al.mu0)
        /\ NonNegative(al.mu_new)
        /\ pc = "al_inner" => NonNegative(us.f.mu)
        /\ al.iter = 0 =>
                /\ al.mu0 = Zeros(Len(Con(call.con, call.x).g))
                /\ al.lambda_0 = Zeros(Len(Con(call.con, call.x).h))

\* The flag the terminal conditions give on the caller's objective: a
\* function of the caller's f, delta_f and tolerances, the previous outer
\* iterate x, the candidate x_new and the count alone.
OriginalFlag(x, x_new, iter) ==
    IF iter >= call.max_iter THEN 0
    ELSE IF GradTolMet(call.delta_f, call.f, x_new, call.grad_tol) THEN 1
    ELSE IF StepTolMet(x, x_new, call.delta_x_tol) THEN 2
    ELSE IF ObjTolMet(call.f, x, x_new, call.delta_f_tol) THEN 3
    ELSE Unbound

\* C6: the outer check of augmented_lagrangian is taken on the original
\* objective f: the gradient of f at x_new, f(x_new) - f(x) and x_new - x
\* with x the previous outer iterate decide the flag; the augmented
\* Lagrangian and the multipliers do not enter.
C6_OuterCheckOnOriginal ==
    [][ALIterates =>
            /\ al'.exit_flag = OriginalFlag(al.x, al.x_new, al.iter + 1)
            /\ al'.convergence = (al'.exit_flag # Unbound)]_vars

\* An outer iteration with multipliers that are not zero has stopped on a
\* tolerance.
C6_Witness ==
    /\ pc = "al"
    /\ al.convergence
    /\ al.exit_flag \in 1..3
    /\ al.iter >= 2
    /\ \E i \in 1..Len(al.mu0) : al.mu0[i] # NaN /\ al.mu0[i] > 0
    /\ \E j \in 1..Len(al.lambda_0) : al.lambda_0[j] # 0

\* C7: within one augmented_lagrangian call rho is never changed: the
\* objective of every inner solve and every multiplier update use the rho
\* the caller passed.
C7_RhoFixed ==
    [][/\ (InAL /\ pc # "done") => al'.rho = call.rho
       /\ (pc = "al" /\ pc' = "al_inner") => us'.f.rho = call.rho
       /\ ALIterates =>
            /\ al'.mu_new =
                   mu_update(al.mu0, call.rho, Con(call.con, al.x_new).g)
            /\ al'.lambda_new =
                   lambda_update(al.lambda_0, call.rho,
                                 Con(call.con, al.x_new).h)]_vars

\* The third inner solve of a call with rho = 2 is under way, with a
\* constraint value that is not zero.
C7_Witness ==
    /\ pc = "al_inner"
    /\ al.iter >= 2
    /\ call.rho = 2 * Q
    /\ us.iter >= 1
    /\ us.f.rho = 2 * Q
    /\ \E i \in 1..Len(al.g) : al.g[i] \notin {0, NaN}

\* A call of forward_diff has returned.
ForwardDiffDone == pc = "done" /\ call.fn = "forward_diff"

\* C8 (as amended): one call of forward_diff on a vector of dimension n
\* evaluates f exactly 2n times: for each dimension in turn, once at x
\* with only that coordinate increased by h and once at the unperturbed x
\* (the baseline is evaluated again for every dimension).
C8_TwoEvaluationsPerDimension ==
    ForwardDiffDone =>
        /\ Len(us.evals) = 2 * Len(call.x)
        /\ \A i \in 1..Len(call.x) :
                /\ us.evals[2 * i - 1] = Bump(call.x, i, call.h)
                /\ us.evals[2 * i] = call.x

\* C8 as stated: n + 1 evaluations, one of them at the unperturbed x and
\* one per dimension at x with that coordinate increased by h.
C8_AsClaimed ==
    ForwardDiffDone =>
        /\ Len(us.evals) = Len(call.x) + 1
        /\ Cardinality({k \in 1..Len(us.evals) : us.evals[k] = call.x}) = 1
        /\ \A i \in 1..Len(call.x) :
                \E k \in 1..Len(us.evals) :
                    us.evals[k] = Bump(call.x, i, call.h)

\* forward_diff has returned the gradient of a vector of dimension 3.
C8_Witness ==
    /\ ForwardDiffDone
    /\ Len(call.x) = 3
    /\ Len(ret.delta_f) = 3
    /\ us.i = 3

\* The sum of the squares of a vector's components.
SumSq(v) == FSum(Array([i \in 1..Len(v) |-> FMul(v[i], v[i])]))

\* The positive parts of a vector's components.
Positive(v) == Array([i \in 1..Len(v) |-> IF FLt(0, v[i]) THEN v[i] ELSE 0])

Feasible(c) ==
    /\ \A i \in 1..Len(c.g) : FLe(c.g[i], 0)
    /\ \A j \in 1..Len(c.h) : c.h[j] = 0

\* The function returned by constrained_to_unconstrained has been called.
PenaltyDone == pc = "done" /\ us.fn = "f_unconstrained"

\* C9: the function returned by constrained_to_unconstrained(f, con, x0,
\* p) gives, at every argument x, f(x) + p*(sum of max(0, g_i)^2 + sum of
\* h_j^2) with (g, h) = con(x) at that argument; so it equals f(x) at
\* every feasible x, with g or h empty too, and is >= f(x) when p >= 0
\* (for a value that is a finite number).
C9_PenaltyValue ==
    PenaltyDone =>
        /\ us.value =
               FAdd(UserF(call.f, us.x),
                    FMul(call.p,
                         FAdd(SumSq(Positive(Con(call.con, us.x).g)),
                              SumSq(Con(call.con, us.x).h))))
        /\ Feasible(Con(call.con, us.x)) => us.value = UserF(call.f, us.x)
        /\ (call.p >= 0 /\ us.value # NaN) => us.value >= UserF(call.f, us.x)

\* The function was built at an infeasible x0 and called at a feasible x,
\* with p > 0: it gives f(x).
C9_Witness ==
    /\ PenaltyDone
    /\ call.p = p_default
    /\ call.con = "both"
    /\ ~Feasible(Con(call.con, call.x))
    /\ Feasible(Con(call.con, us.x))
    /\ us.value = UserF(call.f, us.x)

\* max(0, a) for a finite a.
Max0(a) == IF a < 0 THEN 0 ELSE a

\* C10: in each outer iteration of augmented_lagrangian, with (g, h) =
\* con(x_new) at the x_new the inner solve returned, mu_new = max(0, mu +
\* rho*g) componentwise (where mu + rho*g is a finite number) and
\* lambda_new = lambda + rho*h; the next inner solve minimizes the augmented
\* Lagrangian of exactly these multipliers and starts from this x_new; the
\* multipliers do not change while an inner solve runs.
C10_MultiplierUpdate ==
    [][/\ ALIterates =>
            /\ Len(al'.mu_new) = Len(Con(call.con, al.x_new).g)
            /\ \A i \in 1..Len(al'.mu_new) :
                    FAdd(al.mu0[i], FMul(al.rho, Con(call.con, al.x_new).g[i])) # NaN
                    => al'.mu_new[i] =
                        Max0(al.mu0[i] +
                             FMul(al.rho, Con(call.con, al.x_new).g[i]))
            /\ al'.lambda_new =
                   VAdd(al.lambda_0, VScale(al.rho, Con(call.con, al.x_new).h))
            /\ al'.mu0 = al'.mu_new
            /\ al'.lambda_0 = al'.lambda_new
            /\ al'.x = al.x_new
       /\ (pc = "al" /\ pc' = "al_inner") =>
            /\ us'.f = [kind |-> "aug", f |-> call.f, con |-> call.con,
                        lambda_ |-> al.lambda_0, mu |-> al.mu0,
                        rho |-> call.rho]
            /\ us'.x = al.x
            /\ al.iter >= 1 =>
                    /\ us'.x = al.x_new
                    /\ us'.f.mu = al.mu_new
                    /\ us'.f.lambda_ = al.lambda_new
       /\ pc = "al_inner" =>
            /\ al'.mu0 = al.mu0
            /\ al'.lambda_0 = al.lambda_0
            /\ us'.f = us.f]_vars

\* The second or a later inner solve is under way, away from its starting
\* point, with a positive inequality multiplier.
C10_Witness ==
    /\ pc = "al_inner"
    /\ al.iter >= 1
    /\ us.iter >= 1
    /\ \E i \in 1..Len(us.f.mu) : us.f.mu[i] # NaN /\ us.f.mu[i] > 0
    /\ us.f.mu = al.mu_new
    /\ us.x # al.x

\* This step starts a quasi_newton solve: the user's call, or the inner call
\* of a pass of augmented_lagrangian.
QNStarts ==
    /\ pc \in {"idle", "al"}
    /\ pc' \in {"solver", "al_inner"}
    /\ us'.fn = "quasi_newton"

\* This step is one iteration of quasi_newton's loop.
QNIterates ==
    /\ SolverIterates
    /\ us.fn = "quasi_newton"

\* The first pass steepest_descent makes from the f, x and gradient
\* estimator of the locals u.
SDFirstPass(u) == steepest_descent_body([u EXCEPT !.fn = "steepest_descent"])

\* The first iteration of quasi_newton led to the locals v, with g the
\* gradient at the starting point and sd what steepest_descent's first pass
\* leads to: the direction is the normalized negative gradient, direction
\* and candidate are steepest_descent's.
FirstAsSteepest(g, sd, v) ==
    ~HasNaN(g) =>
        /\ v.s = Normalize(VNeg(g))
        /\ v.s = sd.s
        /\ v.x_new = sd.x_new

\* An iteration of quasi_newton led from the locals u to the locals v, with
\* delta_x = v.x_new - u.x and delta_delta the difference of the gradients
\* at these two points: B has received the update, x is x_new.
HessianUpdated(u, v, delta_x, delta_delta) ==
    /\ v.B = MAdd(u.B, update_rule(u.update_rule, u.B, delta_x, delta_delta))
    /\ v.x = v.x_new

\* An iteration of quasi_newton from u to v, with g the gradient at u.x.
QNPassAsClaimed(u, v, g) ==
    /\ u.iter = 0 => FirstAsSteepest(g, SDFirstPass(u), v)
    /\ HessianUpdated(u, v, VSub(v.x_new, u.x),
                      VSub(delta_f(u.delta_f, u.f, v.x_new), g))

\* C11: every call of quasi_newton starts with B the n-by-n identity,
\* whatever B an earlier solve ended with; in its first iteration the
\* direction is the normalized negative gradient and (the gradient at x
\* being finite) the candidate x_new is the one steepest_descent computes
\* from the same f, x and gradient estimator; at the end of every iteration
\* B becomes B + update_rule(B, x_new - x, gradient(x_new) - gradient(x))
\* with x the iterate the step was taken from, and then x becomes x_new.
C11_FreshIdentityThenUpdate ==
    [][/\ QNStarts =>
            /\ us'.iter = 0
            /\ us'.B = Eye(Len(us'.x))
       /\ QNIterates =>
            QNPassAsClaimed(us, us', delta_f(us.delta_f, us.f, us.x))]_vars

\* The second or a later inner solve of augmented_lagrangian has made its
\* first iteration: it moved, and its B, the identity at the start of this
\* solve, has received a finite update.
C11_Witness ==
    /\ pc = "al_inner"
    /\ al.iter >= 1
    /\ us.fn = "quasi_newton"
    /\ us.iter = 1
    /\ us.x # al.x
    /\ ~HasNaN(us.x)
    /\ \A i \in 1..Len(us.B) : ~HasNaN(us.B[i])
    /\ us.B # Eye(Len(us.x))

\* This step is one iteration of conjugate_gradient's loop.
CGIterates ==
    /\ SolverIterates
    /\ us.fn = "conjugate_gradient"

\* norm(a)^2 / norm(b)^2
NormRatio(na, nb) == FDiv(FMul(na, na), FMul(nb, nb))

\* The direction -g_new + (norm(g_new)^2 / norm(g)^2) * s_prev.
FletcherReeves(g_new, g, s_prev) ==
    VAdd(VNeg(g_new), VScale(NormRatio(Norm(g_new), Norm(g)), s_prev))

\* An iteration of conjugate_gradient that started with the counter iter,
\* the candidate x_new of gradient g_new, the iterate x before it of
\* gradient g and the direction s_prev, in dimension n, has taken the
\* direction s (normalized): a restart exactly when iter mod n = 0.
DirectionAsClaimed(iter, n, g_new, g, s_prev, s) ==
    /\ iter % n = 0 => s = Normalize(VNeg(g_new))
    /\ iter % n # 0 => s = Normalize(FletcherReeves(g_new, g, s_prev))
    /\ (iter = 0 \/ n = 1) => s = Normalize(VNeg(g_new))

\* C12: in conjugate_gradient with design dimension n, the direction of a
\* loop iteration (normalized after it is formed) is -gradient(f, x_new)
\* exactly when the counter at the start of the iteration satisfies
\* iter mod n = 0, so in the first iteration and, when n = 1, in every one;
\* in every other iteration it is -gradient(f, x_new) +
\* (norm(gradient(f, x_new))^2 / norm(gradient(f, x))^2) * s_prev, with x
\* the iterate before x_new and s_prev the direction of the iteration
\* before.
C12_RestartEveryN ==
    [][CGIterates =>
            DirectionAsClaimed(us.iter, Len(us.x),
                               delta_f(us.delta_f, us.f, us.x_new),
                               delta_f(us.delta_f, us.f, us.x),
                               us.s, us'.s)]_vars

\* A conjugate_gradient call in two dimensions has made its second
\* iteration, not a restart: the direction taken is finite and is not the
\* steepest-descent direction at the point it was taken from.
C12_Witness ==
    /\ pc = "solver"
    /\ us.fn = "conjugate_gradient"
    /\ Len(us.x) = 2
    /\ us.iter = 2
    /\ ~HasNaN(us.s)
    /\ us.s # Normalize(VNeg(delta_f(us.delta_f, us.f, us.x)))

\* A user's call of an unconstrained solver with full_output=True and
\* max_iter >= 1 has returned.
CountReturned ==
    /\ pc = "done"
    /\ call.fn \in Solvers
    /\ call.full_output
    /\ call.max_iter >= 1

\* C13 as stated (here for the calls with max_iter >= 1 alone): for
\* steepest_descent, conjugate_gradient and quasi_newton, the
\* iteration_count returned with full_output=True is the number of line
\* searches the call has made, and that number is at most max_iter.
C13_AsClaimed ==
    CountReturned =>
        /\ ret.iter = us.line_searches
        /\ us.line_searches <= call.max_iter

\* C14 as stated: each inner quasi_newton solve started by
\* augmented_lagrangian runs with the caller's convergence parameters under
\* the same names: its grad_tol is the caller's grad_tol, its delta_f_tol
\* the caller's delta_f_tol and its delta_x_tol the caller's delta_x_tol.
C14_AsClaimed ==
    (pc = "al_inner" /\ us.fn = "quasi_newton") =>
        /\ us.grad_tol = call.grad_tol
        /\ us.delta_f_tol = call.delta_f_tol
        /\ us.delta_x_tol = call.delta_x_tol

====
